---- MODULE Spec2Model ----
(***************************************************************************)
(* A model of the Asus TUF hardware-control daemon: the pseudo-file store  *)
(* with its retry wrapper (services/base.py), the power, thermal and       *)
(* keyboard services, and the process supervisor (tuf_utils.py).           *)
(*                                                                         *)
(* The module holds several specifications over one set of variables:      *)
(*   SpecPower    calls of the PowerService operations, one at a time      *)
(*   SpecThermal  calls of the ThermalService operations, one at a time    *)
(*   SpecRetry    one retry_with_backoff wrapper, attempt by attempt       *)
(*   SpecLeds     KeyboardService.update_leds, task by task                *)
(*   SpecCpu      KeyboardService._calculate_cpu_utilization, by call      *)
(*   SpecStore    the handle cache behind the store reads and writes       *)
(*   SpecSup      TUFUtils.start / _monitor_process / cleanup as processes *)
(*   SpecBoot     TUFUtils.__init__ write by write, then SpecSup           *)
(*   SpecLoops    the four control-loop functions, iteration by iteration  *)
(*   SpecPerf     set_performance_mode beside the running power loop       *)
(* The variables a specification does not use keep their initial value.    *)
(***************************************************************************)
EXTENDS Integers, Sequences, FiniteSets, TLC

VARIABLES
    files,      \* content of every pseudo-file, a string per path
    clang,      \* scanAllProcessesForMapping("clang") != {}
    call,       \* the service call that completed last, with its I/O events
    prev_call,  \* the service call before it when it was the same call, else NoCall
    rt,         \* one retry_with_backoff wrapper invocation in progress
    kb,         \* KeyboardService fields: lru cache, _last_cpu_stats
    led,        \* one update_leds coroutine with its gathered tasks
    running,    \* TUFUtils._running of the main process
    processes,  \* TUFUtils._processes of the main process
    mainpc,     \* position of the main process in start()
    cleanups,   \* number of cleanup() calls that returned in the main process
    fds,        \* BaseService._file_descriptors of each service of the main process
    mon,        \* the monitor processes: their copy of the TUFUtils fields, their position
    alive,      \* the control-loop worker processes that are alive
    loops,      \* the four control-loop functions: position, own copy of _running, counts
    writers     \* history: <<loop, path>> for every write a loop has issued

svcvars == <<files, clang, call, prev_call>>
rtvars  == <<rt>>
ledvars == <<kb, led>>
loopvars == <<loops, writers>>
supvars == <<running, processes, mainpc, cleanups, fds, mon, alive, loops, writers>>
vars    == <<files, clang, call, prev_call, rt, kb, led,
             running, processes, mainpc, cleanups, fds, mon, alive, loops, writers>>

-----------------------------------------------------------------------------
(* config.py *)

FAN_MODES         == [normal |-> 0, boost |-> 1, silent |-> 2]
POWER_PROFILES    == [balanced |-> 0, performance |-> 1, powersave |-> 2]
GPU_MODES         == [eco |-> 0, standard |-> 1, boost |-> 2]
THROTTLE_POLICIES == [normal |-> 0, boost |-> 1, silent |-> 2]

FAN_TEMP_THRESHOLD  == 75
LED_MAX_VALUE       == 255
MAX_RETRIES         == 3
\* INITIAL_RETRY_DELAY = 1.0 second; delays are counted in whole seconds
INITIAL_RETRY_DELAY == 1

FAN_CONTROL_PATH     == "fan_boost_mode"
POWER_PROFILE_PATH   == "power_profile"
GPU_POWER_PATH       == "gpu_power"
THROTTLE_POLICY_PATH == "throttle_thermal_policy"
BATTERY_STATUS_PATH  == "BAT1/status"
GAMEMODE_PATH        == "gamemode"
TEMP_PATHS           == [cpu |-> "thermal_zone0/temp", gpu |-> "thermal_zone1/temp"]
KBBL_PATHS           == [mode |-> "kbbl_mode", speed |-> "kbbl_speed", flags |-> "kbbl_flags",
                         red |-> "red", green |-> "green", blue |-> "blue", apply |-> "apply"]

ControlPaths  == {FAN_CONTROL_PATH, POWER_PROFILE_PATH, GPU_POWER_PATH, THROTTLE_POLICY_PATH}
KeyboardPaths == {KBBL_PATHS.mode, KBBL_PATHS.speed, KBBL_PATHS.flags,
                  KBBL_PATHS.red, KBBL_PATHS.green, KBBL_PATHS.blue, KBBL_PATHS.apply}
Paths == ControlPaths \cup KeyboardPaths
           \cup {BATTERY_STATUS_PATH, GAMEMODE_PATH, TEMP_PATHS.cpu, TEMP_PATHS.gpu}

-----------------------------------------------------------------------------
(* Text of the pseudo-files.  str(n) is the decimal text of n; int(s) and  *)
(* float(s) parse it back and raise ValueError on anything else.           *)

TempMillis == {62000, 65000, 69999, 70000, 72000, 74999, 75000, 82000, 85000}
Numbers    == (0..LED_MAX_VALUE) \cup TempMillis

str(n) == ToString(n)

NumberTexts == {str(n) : n \in Numbers}

Parsed == [s \in NumberTexts |-> CHOOSE n \in Numbers : str(n) = s]

IsNumeric(s) == s \in NumberTexts

int(s) == Parsed[s]

Max(a, b) == IF a >= b THEN a ELSE b

-----------------------------------------------------------------------------
(* services/base.py: the store as the services see it.  A read or a write  *)
(* goes through retry_with_backoff (modelled attempt by attempt in          *)
(* SpecRetry); here `failing` is the set of paths whose I/O fails on every  *)
(* attempt of the current call, so that the wrapper raises.                *)

Event(kind, path, val, ok) == [kind |-> kind, path |-> path, val |-> val, ok |-> ok]

\* the outcome of self._read_from_file(filepath): the content, or an exception
read_from_file(filepath, failing) ==
    IF filepath \in failing
    THEN Event("read", filepath, "", FALSE)
    ELSE Event("read", filepath, files[filepath], TRUE)

\* the outcome of self._write_to_file(filepath, content)
write_to_file(filepath, content, failing) ==
    Event("write", filepath, content, filepath \notin failing)

\* the files after the events of one call, in order
RECURSIVE Apply(_, _)
Apply(f, events) ==
    IF events = <<>> THEN f
    ELSE LET e == Head(events)
         IN  Apply(IF e.kind = "write" /\ e.ok THEN [f EXCEPT ![e.path] = e.val] ELSE f,
                   Tail(events))

Writes(events) == SelectSeq(events, LAMBDA e : e.kind = "write")

NoCall == [op |-> "none", args |-> <<>>, events |-> <<>>, max_temp |-> 0, current |-> 0]

Setters == {"set_fan_mode", "set_power_profile", "set_gpu_mode",
            "set_thermal_throttle_policy", "optimize_power_settings"}

\* bookkeeping of a completed call: the call before it is kept when both are the
\* same "set" operation with the same arguments
Completed(c) ==
    /\ call' = c
    /\ prev_call' = IF c.op \in Setters /\ call.op = c.op /\ call.args = c.args
                    THEN call ELSE NoCall
    /\ files' = Apply(files, c.events)

ServiceFrame == UNCHANGED <<clang, rtvars, ledvars, supvars>>

-----------------------------------------------------------------------------
(* services/power.py *)

\* read_temperatures that keeps the cpu value when only the gpu read fails
read_temperatures_keeps_cpu(failing) ==
    LET c == read_from_file(TEMP_PATHS.cpu, failing)
        g == read_from_file(TEMP_PATHS.gpu, failing)
    IN  IF ~(c.ok /\ IsNumeric(c.val))
        THEN [cpu |-> 0, gpu |-> 0, events |-> <<c>>]
        ELSE IF ~(g.ok /\ IsNumeric(g.val))
        THEN [cpu |-> int(c.val), gpu |-> 0, events |-> <<c, g>>]
        ELSE [cpu |-> int(c.val), gpu |-> int(g.val), events |-> <<c, g>>]

\* read_temperatures: (cpu, gpu) in millidegrees (the code divides by 1000.0
\* and compares with degrees), (0.0, 0.0) on any failure
read_temperatures(failing) ==
    LET c == read_from_file(TEMP_PATHS.cpu, failing)
        g == read_from_file(TEMP_PATHS.gpu, failing)
    IN  IF ~(c.ok /\ IsNumeric(c.val))
        THEN [cpu |-> 0, gpu |-> 0, events |-> <<c>>]
        ELSE IF ~(g.ok /\ IsNumeric(g.val))
        THEN [cpu |-> 0, gpu |-> 0, events |-> <<c, g>>]
        ELSE [cpu |-> int(c.val), gpu |-> int(g.val), events |-> <<c, g>>]

get_fan_mode(failing) ==
    LET r == read_from_file(FAN_CONTROL_PATH, failing)
    IN  [mode   |-> IF r.ok /\ IsNumeric(r.val) THEN int(r.val) ELSE FAN_MODES.normal,
         events |-> <<r>>]

set_fan_mode(mode, failing) == <<write_to_file(FAN_CONTROL_PATH, str(mode), failing)>>

set_power_profile(profile, failing) ==
    <<write_to_file(POWER_PROFILE_PATH, str(profile), failing)>>

set_gpu_mode(mode, failing) == <<write_to_file(GPU_POWER_PATH, str(mode), failing)>>

\* auto_fan_control without the hysteresis band: back to normal below the threshold itself
auto_fan_decision_one_threshold(max_temp, current_mode) ==
    IF max_temp >= FAN_TEMP_THRESHOLD * 1000 /\ current_mode # FAN_MODES.boost
    THEN <<FAN_MODES.boost>>
    ELSE IF max_temp < FAN_TEMP_THRESHOLD * 1000 /\ current_mode = FAN_MODES.boost
    THEN <<FAN_MODES.normal>>
    ELSE <<>>

\* the if / elif of auto_fan_control: the modes it sets, in order
auto_fan_decision(max_temp, current_mode) ==
    IF max_temp >= FAN_TEMP_THRESHOLD * 1000 /\ current_mode # FAN_MODES.boost
    THEN <<FAN_MODES.boost>>
    ELSE IF max_temp < (FAN_TEMP_THRESHOLD - 5) * 1000 /\ current_mode = FAN_MODES.boost
    THEN <<FAN_MODES.normal>>
    ELSE <<>>

\* one iteration of the body of auto_fan_control
auto_fan_control(rfail, wfail) ==
    LET t        == read_temperatures(rfail)
        max_temp == Max(t.cpu, t.gpu)
        cur      == get_fan_mode(rfail)
        set      == auto_fan_decision(max_temp, cur.mode)
        w        == IF set = <<>> THEN <<>> ELSE set_fan_mode(set[1], wfail)
    IN  [op |-> "auto_fan_control", args |-> <<>>,
         events |-> t.events \o cur.events \o w,
         max_temp |-> max_temp, current |-> cur.mode]

AutoFanControl ==
    /\ \E rfail \in SUBSET {TEMP_PATHS.cpu, TEMP_PATHS.gpu, FAN_CONTROL_PATH},
          wfail \in SUBSET {FAN_CONTROL_PATH} : Completed(auto_fan_control(rfail, wfail))
    /\ ServiceFrame

\* optimize_power_settings without `if not performance_mode`: silent whenever on battery
optimize_power_settings_always_silent(on_battery, performance_mode, wfail) ==
    IF on_battery
    THEN set_power_profile(POWER_PROFILES.powersave, wfail)
           \o set_gpu_mode(GPU_MODES.eco, wfail)
           \o set_fan_mode(FAN_MODES.silent, wfail)
    ELSE IF performance_mode
    THEN set_power_profile(POWER_PROFILES.performance, wfail)
           \o set_gpu_mode(GPU_MODES.boost, wfail)
           \o set_fan_mode(FAN_MODES.boost, wfail)
    ELSE set_power_profile(POWER_PROFILES.balanced, wfail)
           \o set_gpu_mode(GPU_MODES.standard, wfail)
           \o set_fan_mode(FAN_MODES.normal, wfail)

\* optimize_power_settings: the events of the set calls it makes
optimize_power_settings(on_battery, performance_mode, wfail) ==
    IF on_battery
    THEN set_power_profile(POWER_PROFILES.powersave, wfail)
           \o set_gpu_mode(GPU_MODES.eco, wfail)
           \o (IF ~performance_mode THEN set_fan_mode(FAN_MODES.silent, wfail) ELSE <<>>)
    ELSE IF performance_mode
    THEN set_power_profile(POWER_PROFILES.performance, wfail)
           \o set_gpu_mode(GPU_MODES.boost, wfail)
           \o set_fan_mode(FAN_MODES.boost, wfail)
    ELSE set_power_profile(POWER_PROFILES.balanced, wfail)
           \o set_gpu_mode(GPU_MODES.standard, wfail)
           \o set_fan_mode(FAN_MODES.normal, wfail)

\* a call of a "set" operation and what it did
SetCall(op, args, events) ==
    [op |-> op, args |-> args, events |-> events, max_temp |-> 0, current |-> 0]

PowerPaths == {FAN_CONTROL_PATH, POWER_PROFILE_PATH, GPU_POWER_PATH}

OptimizePowerSettings ==
    /\ \E on_battery \in BOOLEAN, performance_mode \in BOOLEAN, wfail \in SUBSET PowerPaths :
          Completed(SetCall("optimize_power_settings", <<on_battery, performance_mode>>,
                            optimize_power_settings(on_battery, performance_mode, wfail)))
    /\ ServiceFrame

\* direct calls of the three setters
SetFanMode ==
    /\ \E mode \in 0..2, wfail \in SUBSET {FAN_CONTROL_PATH} :
          Completed(SetCall("set_fan_mode", <<mode>>, set_fan_mode(mode, wfail)))
    /\ ServiceFrame

SetPowerProfile ==
    /\ \E profile \in 0..2, wfail \in SUBSET {POWER_PROFILE_PATH} :
          Completed(SetCall("set_power_profile", <<profile>>,
                            set_power_profile(profile, wfail)))
    /\ ServiceFrame

SetGpuMode ==
    /\ \E mode \in 0..2, wfail \in SUBSET {GPU_POWER_PATH} :
          Completed(SetCall("set_gpu_mode", <<mode>>, set_gpu_mode(mode, wfail)))
    /\ ServiceFrame

\* the kernel updates a temperature file; "hot" stands for non-numeric content
CpuTempTexts == {str(n) : n \in TempMillis} \cup {"hot"}
GpuTempTexts == {str(62000), str(82000)}

TemperatureChanges ==
    /\ \/ \E t \in CpuTempTexts : files' = [files EXCEPT ![TEMP_PATHS.cpu] = t]
       \/ \E t \in GpuTempTexts : files' = [files EXCEPT ![TEMP_PATHS.gpu] = t]
    /\ UNCHANGED <<clang, call, prev_call, rtvars, ledvars, supvars>>

ModeTexts == {str(n) : n \in 0..2}

InitFiles ==
    [p \in Paths |->
        IF p = BATTERY_STATUS_PATH THEN "Charging"
        ELSE IF p \in {TEMP_PATHS.cpu, TEMP_PATHS.gpu} THEN str(62000)
        ELSE IF p = KBBL_PATHS.flags THEN "ff"
        ELSE str(0)]

InitOther ==
    /\ clang = FALSE
    /\ call = NoCall
    /\ prev_call = NoCall

NextPower ==
    \/ AutoFanControl
    \/ OptimizePowerSettings
    \/ SetFanMode
    \/ SetPowerProfile
    \/ SetGpuMode
    \/ TemperatureChanges

-----------------------------------------------------------------------------
(* services/thermal.py *)

BatteryTexts == {"Charging", "Discharging", "Full", "Not charging"}

\* 'Discharging' in status, for the status texts of the model
ContainsDischarging(status) == status \in {"Discharging"}

GamemodeTexts == {str(0), str(1), "on"}

is_on_battery(failing) ==
    LET r == read_from_file(BATTERY_STATUS_PATH, failing)
    IN  [on_battery |-> r.ok /\ ContainsDischarging(r.val), events |-> <<r>>]

read_gamemode(failing) ==
    LET r == read_from_file(GAMEMODE_PATH, failing)
    IN  [gamemode |-> IF r.ok /\ IsNumeric(r.val) THEN int(r.val) ELSE 0, events |-> <<r>>]

read_thermal_throttle_policy(failing) ==
    LET r == read_from_file(THROTTLE_POLICY_PATH, failing)
    IN  [policy |-> IF r.ok /\ IsNumeric(r.val) THEN int(r.val) ELSE 0, events |-> <<r>>]

set_thermal_throttle_policy(policy, failing) ==
    <<write_to_file(THROTTLE_POLICY_PATH, str(policy), failing)>>

\* os.system("sysctl kernel.sched_tt_balancer_opt=<n>")
system(n) == <<Event("cmd", "sysctl", "kernel.sched_tt_balancer_opt=" \o str(n), TRUE)>>

\* scanAllProcessesForMapping("clang") != {}
scan_clang == Event("scan", "clang", IF clang THEN "mapped" ELSE "", TRUE)

\* update_thermal_policy with the gamemode test ahead of the battery test
thermal_decision_gamemode_first(on_battery, current_policy, gamemode, compiling, wfail) ==
    IF gamemode = 1
    THEN IF current_policy # THROTTLE_POLICIES.boost
         THEN set_thermal_throttle_policy(THROTTLE_POLICIES.boost, wfail) \o system(1)
         ELSE <<>>
    ELSE IF on_battery
    THEN IF current_policy # THROTTLE_POLICIES.silent
         THEN set_thermal_throttle_policy(THROTTLE_POLICIES.silent, wfail) \o system(3)
         ELSE <<>>
    ELSE IF compiling
    THEN set_thermal_throttle_policy(THROTTLE_POLICIES.boost, wfail)
    ELSE IF current_policy # THROTTLE_POLICIES.normal
    THEN set_thermal_throttle_policy(THROTTLE_POLICIES.normal, wfail) \o system(1)
    ELSE <<>>

\* update_thermal_policy whose compiler branch compares before writing, as the others do
thermal_decision_compiler_compares(on_battery, current_policy, gamemode, compiling, wfail) ==
    IF on_battery
    THEN IF current_policy # THROTTLE_POLICIES.silent
         THEN set_thermal_throttle_policy(THROTTLE_POLICIES.silent, wfail) \o system(3)
         ELSE <<>>
    ELSE IF gamemode = 1
    THEN IF current_policy # THROTTLE_POLICIES.boost
         THEN set_thermal_throttle_policy(THROTTLE_POLICIES.boost, wfail) \o system(1)
         ELSE <<>>
    ELSE IF compiling
    THEN IF current_policy # THROTTLE_POLICIES.boost
         THEN set_thermal_throttle_policy(THROTTLE_POLICIES.boost, wfail)
         ELSE <<>>
    ELSE IF current_policy # THROTTLE_POLICIES.normal
    THEN set_thermal_throttle_policy(THROTTLE_POLICIES.normal, wfail) \o system(1)
    ELSE <<>>

\* the branches of update_thermal_policy after its reads: the events of the branch taken
thermal_decision(on_battery, current_policy, gamemode, compiling, wfail) ==
    IF on_battery
    THEN IF current_policy # THROTTLE_POLICIES.silent
         THEN set_thermal_throttle_policy(THROTTLE_POLICIES.silent, wfail) \o system(3)
         ELSE <<>>
    ELSE IF gamemode = 1
    THEN IF current_policy # THROTTLE_POLICIES.boost
         THEN set_thermal_throttle_policy(THROTTLE_POLICIES.boost, wfail) \o system(1)
         ELSE <<>>
    ELSE IF compiling
    THEN set_thermal_throttle_policy(THROTTLE_POLICIES.boost, wfail)
    ELSE IF current_policy # THROTTLE_POLICIES.normal
    THEN set_thermal_throttle_policy(THROTTLE_POLICIES.normal, wfail) \o system(1)
    ELSE <<>>

\* the reads of update_thermal_policy: gamemode is read off battery only, the
\* process scan runs only when gamemode is not 1
thermal_reads(b, cur, g) ==
    b.events \o cur.events
      \o (IF b.on_battery THEN <<>> ELSE g.events)
      \o (IF b.on_battery \/ g.gamemode = 1 THEN <<>> ELSE <<scan_clang>>)

update_thermal_policy(rfail, wfail) ==
    LET b   == is_on_battery(rfail)
        cur == read_thermal_throttle_policy(rfail)
        g   == read_gamemode(rfail)
    IN  [op |-> "update_thermal_policy", args |-> <<>>,
         events |-> thermal_reads(b, cur, g)
                      \o thermal_decision(b.on_battery, cur.policy, g.gamemode, clang, wfail),
         max_temp |-> 0, current |-> cur.policy]

UpdateThermalPolicy ==
    /\ \E rfail \in SUBSET {BATTERY_STATUS_PATH, THROTTLE_POLICY_PATH, GAMEMODE_PATH},
          wfail \in SUBSET {THROTTLE_POLICY_PATH} :
          Completed(update_thermal_policy(rfail, wfail))
    /\ ServiceFrame

SetThermalThrottlePolicy ==
    /\ \E policy \in 0..2, wfail \in SUBSET {THROTTLE_POLICY_PATH} :
          Completed(SetCall("set_thermal_throttle_policy", <<policy>>,
                            set_thermal_throttle_policy(policy, wfail)))
    /\ ServiceFrame

BatteryChanges ==
    /\ \E t \in BatteryTexts : files' = [files EXCEPT ![BATTERY_STATUS_PATH] = t]
    /\ UNCHANGED <<clang, call, prev_call, rtvars, ledvars, supvars>>

GamemodeChanges ==
    /\ \E t \in GamemodeTexts : files' = [files EXCEPT ![GAMEMODE_PATH] = t]
    /\ UNCHANGED <<clang, call, prev_call, rtvars, ledvars, supvars>>

CompilerStartsOrStops ==
    /\ clang' = ~clang
    /\ UNCHANGED <<files, call, prev_call, rtvars, ledvars, supvars>>

NextThermal ==
    \/ UpdateThermalPolicy
    \/ SetThermalThrottlePolicy
    \/ BatteryChanges
    \/ GamemodeChanges
    \/ CompilerStartsOrStops

-----------------------------------------------------------------------------
(* services/base.py: retry_with_backoff around _read_from_file and          *)
(* _write_to_file, one attempt at a time.                                   *)

RetryPaths == {FAN_CONTROL_PATH, THROTTLE_POLICY_PATH}

RtIdle ==
    [pc |-> "idle", op |-> "none", path |-> FAN_CONTROL_PATH, content |-> "",
     retry |-> 0, delay |-> 0, log |-> <<>>, sleeps |-> <<>>, result |-> ""]

\* a wrapper that compares with max_retries: the last failure is never re-raised
is_last_retry_off_by_one(retry) == retry = MAX_RETRIES

\* a wrapper that does not double the delay
next_delay_constant(delay) == delay

\* `if retry == max_retries - 1`
is_last_retry(retry) == retry = MAX_RETRIES - 1

\* `delay *= 2`
next_delay(delay) == delay * 2

\* wrapper(*args): delay = initial_delay, and the first turn of `for retry in range(max_retries)`
RetryCall ==
    /\ UNCHANGED <<clang, call, prev_call, ledvars, supvars>>
    /\ rt.pc \in {"idle", "returned", "raised"}
    /\ \E op \in {"read", "write"}, path \in RetryPaths, content \in ModeTexts :
          rt' = [RtIdle EXCEPT !.pc = "try", !.op = op, !.path = path,
                               !.content = IF op = "write" THEN content ELSE "",
                               !.delay = INITIAL_RETRY_DELAY]
    /\ UNCHANGED files

\* `return func(*args, **kwargs)`: the attempt succeeds and the wrapper returns its value
RetryAttemptSucceeds ==
    /\ UNCHANGED <<clang, call, prev_call, ledvars, supvars>>
    /\ rt.pc = "try"
    /\ IF rt.op = "read"
       THEN /\ rt' = [rt EXCEPT !.pc = "returned", !.result = files[rt.path],
                                !.log = Append(@, [ok |-> TRUE, val |-> files[rt.path]])]
            /\ UNCHANGED files
       ELSE /\ rt' = [rt EXCEPT !.pc = "returned", !.result = "None",
                                !.log = Append(@, [ok |-> TRUE, val |-> "None"])]
            /\ files' = [files EXCEPT ![rt.path] = rt.content]

\* the attempt raises (IOError from open, read, write or flush)
RetryAttemptFails ==
    /\ UNCHANGED <<clang, call, prev_call, ledvars, supvars>>
    /\ rt.pc = "try"
    /\ rt' = [rt EXCEPT !.pc = "except", !.log = Append(@, [ok |-> FALSE, val |-> ""])]
    /\ UNCHANGED files

\* `except Exception`: re-raise on the last retry, else sleep(delay), double it, next turn;
\* a loop that runs out of turns falls off the end of wrapper, which returns None
RetryExcept ==
    /\ UNCHANGED <<clang, call, prev_call, ledvars, supvars>>
    /\ rt.pc = "except"
    /\ IF is_last_retry(rt.retry)
       THEN rt' = [rt EXCEPT !.pc = "raised"]
       ELSE rt' = [rt EXCEPT !.sleeps = Append(@, rt.delay),
                             !.delay = next_delay(rt.delay),
                             !.retry = @ + 1,
                             !.pc = IF rt.retry + 1 < MAX_RETRIES THEN "try" ELSE "returned",
                             !.result = IF rt.retry + 1 < MAX_RETRIES THEN @ ELSE "None"]
    /\ UNCHANGED files

\* the kernel changes the content of a file between two attempts
KernelWrites ==
    /\ UNCHANGED <<clang, call, prev_call, ledvars, supvars>>
    /\ \E path \in RetryPaths, t \in ModeTexts : files' = [files EXCEPT ![path] = t]
    /\ UNCHANGED rt

NextRetry ==
    \/ RetryCall
    \/ RetryAttemptSucceeds
    \/ RetryAttemptFails
    \/ RetryExcept
    \/ KernelWrites

-----------------------------------------------------------------------------
(* services/keyboard.py *)

Colors == {"red", "green", "blue"}

CpuSamples == {<<100, 500>>, <<150, 600>>, <<150, 500>>}

\* gpu utilization values handed to update_leds
GpuValues == {0, 33, 40, 100}

\* int(x) of Python: truncation towards zero of the quotient a / b, b > 0.
\* The code divides floats; on CpuSamples the quotients are 0, 1/2 and 1, which
\* floats hold exactly
trunc_div(a, b) == IF a >= 0 THEN a \div b ELSE -((-a) \div b)

\* _calculate_cpu_utilization without its `except Exception`: the
\* ZeroDivisionError of a zero total delta reaches the caller
cpu_utilization_body_unguarded(stats, early, stat) ==
    IF early
    THEN [ret |-> 100, stats |-> stats, raised |-> FALSE]
    ELSE IF stat = <<>>
    THEN [ret |-> 0, stats |-> stats, raised |-> FALSE]
    ELSE IF stats = <<>>
    THEN [ret |-> 0, stats |-> stat, raised |-> FALSE]
    ELSE IF stat[2] - stats[2] = 0
    THEN [ret |-> 0, stats |-> stats, raised |-> TRUE]
    ELSE [ret   |-> trunc_div(((stat[2] - stats[2]) - (stat[1] - stats[1])) * 100,
                              stat[2] - stats[2]),
          stats |-> stat, raised |-> FALSE]

\* the body of _calculate_cpu_utilization: `early` when less than
\* CPU_UPDATE_INTERVAL has passed since _last_cpu_time, `stat` the (idle, total)
\* of /proc/stat or <<>> when reading it raises; `raised` when an exception
\* leaves the method, which the `except Exception` around the body rules out
cpu_utilization_body(stats, early, stat) ==
    IF early
    THEN \* int((1.0 - stats.get('idle_delta', 0) / stats.get('total_delta', 1)) * 100.0)
         [ret |-> 100, stats |-> stats, raised |-> FALSE]
    ELSE IF stat = <<>>
    THEN [ret |-> 0, stats |-> stats, raised |-> FALSE]
    ELSE IF stats = <<>>
    THEN [ret |-> 0, stats |-> stat, raised |-> FALSE]
    ELSE IF stat[2] - stats[2] = 0
    THEN \* ZeroDivisionError, caught: return 0
         [ret |-> 0, stats |-> stats, raised |-> FALSE]
    ELSE [ret   |-> trunc_div(((stat[2] - stats[2]) - (stat[1] - stats[1])) * 100,
                              stat[2] - stats[2]),
          stats |-> stat, raised |-> FALSE]

\* @lru_cache(maxsize=1) on the method: the one service instance is the only key,
\* so the body runs on the first call and its result is returned from then on;
\* a call that raises leaves nothing in the cache
calculate_cpu_utilization(k, early, stat) ==
    IF k.cache # -1
    THEN [ret |-> k.cache, kb |-> k, raised |-> FALSE]
    ELSE LET r == cpu_utilization_body(k.last_cpu_stats, early, stat)
         IN  [ret |-> r.ret, raised |-> r.raised,
              kb  |-> [cache |-> IF r.raised THEN -1 ELSE r.ret, last_cpu_stats |-> r.stats]]

\* int(brightness_coef * x) with LED_BRIGHTNESS_DIM = 0.8, LED_BRIGHTNESS_NORMAL = 1.0
scaled(x, is_dimmed) == IF is_dimmed THEN trunc_div(4 * x, 5) ELSE x

\* update_leds with blue taken from the smaller of the two utilizations
led_values_blue_from_min(cpu_utilization, gpu_utilization, is_dimmed) ==
    [red   |-> scaled(cpu_utilization, is_dimmed),
     green |-> scaled(gpu_utilization, is_dimmed),
     blue  |-> scaled(LED_MAX_VALUE - (IF cpu_utilization <= gpu_utilization
                                       THEN cpu_utilization ELSE gpu_utilization),
                      is_dimmed)]

\* update_leds with the blue difference taken the other way round
led_values_blue_reversed(cpu_utilization, gpu_utilization, is_dimmed) ==
    [red   |-> scaled(cpu_utilization, is_dimmed),
     green |-> scaled(gpu_utilization, is_dimmed),
     blue  |-> scaled(Max(cpu_utilization, gpu_utilization) - LED_MAX_VALUE, is_dimmed)]

\* the brightness handed to set_led_async for each channel
led_values(cpu_utilization, gpu_utilization, is_dimmed) ==
    [red   |-> scaled(cpu_utilization, is_dimmed),
     green |-> scaled(gpu_utilization, is_dimmed),
     blue  |-> scaled(LED_MAX_VALUE - Max(cpu_utilization, gpu_utilization), is_dimmed)]

LedIdle ==
    [pc |-> "idle", value |-> [c \in Colors |-> 0], task |-> [c \in Colors |-> "idle"],
     commit |-> "idle", commits |-> 0,
     cpu_utilization |-> 0, gpu_utilization |-> 0, is_dimmed |-> FALSE]

\* a wait that returns with the first finished awaitable
gather_first_completed(task) == \E c \in Colors : task[c] = "done"

\* asyncio.gather(...) returns once every awaitable it was given has finished
gather_done(task) == \A c \in Colors : task[c] = "done"

\* update_leds up to its first await: the utilization, the three coroutines handed to gather
UpdateLeds ==
    /\ UNCHANGED <<clang, call, prev_call, rtvars, supvars>>
    /\ led.pc \in {"idle", "done"}
    /\ \E gpu_utilization \in GpuValues, is_dimmed \in BOOLEAN,
          early \in BOOLEAN, stat \in CpuSamples \cup {<<>>} :
          LET c == calculate_cpu_utilization(kb, early, stat)
          IN  /\ kb' = c.kb
              /\ led' = [LedIdle EXCEPT !.pc = "gather",
                                        !.value = led_values(c.ret, gpu_utilization, is_dimmed),
                                        !.task = [col \in Colors |-> "ready"],
                                        !.cpu_utilization = c.ret,
                                        !.gpu_utilization = gpu_utilization,
                                        !.is_dimmed = is_dimmed]
    /\ UNCHANGED files

\* set_led_async -> _write_to_file_async: `async with aiofiles.open(path, "w")`
LedOpen(c) ==
    /\ UNCHANGED <<clang, call, prev_call, rtvars, supvars>>
    /\ led.pc = "gather"
    /\ led.task[c] = "ready"
    /\ \E ok \in BOOLEAN : led' = [led EXCEPT !.task[c] = IF ok THEN "opened" ELSE "done"]
    /\ UNCHANGED <<files, kb>>

\* `await f.write(content)`; an IOError is logged by set_led_async and swallowed
LedWrite(c) ==
    /\ UNCHANGED <<clang, call, prev_call, rtvars, supvars>>
    /\ led.pc = "gather"
    /\ led.task[c] = "opened"
    /\ led' = [led EXCEPT !.task[c] = "done"]
    /\ \E ok \in BOOLEAN :
          files' = IF ok THEN [files EXCEPT ![KBBL_PATHS[c]] = str(led.value[c])] ELSE files
    /\ UNCHANGED kb

\* the gather is over: `await self.commit_led_async()` is entered
LedGatherReturns ==
    /\ UNCHANGED <<clang, call, prev_call, rtvars, supvars>>
    /\ led.pc = "gather"
    /\ gather_done(led.task)
    /\ led' = [led EXCEPT !.pc = "commit", !.commit = "ready", !.commits = @ + 1]
    /\ UNCHANGED <<files, kb>>

LedCommitOpen ==
    /\ UNCHANGED <<clang, call, prev_call, rtvars, supvars>>
    /\ led.pc = "commit"
    /\ led.commit = "ready"
    /\ \E ok \in BOOLEAN :
          led' = IF ok THEN [led EXCEPT !.commit = "opened"]
                       ELSE [led EXCEPT !.commit = "done", !.pc = "done"]
    /\ UNCHANGED <<files, kb>>

LedCommitWrite ==
    /\ UNCHANGED <<clang, call, prev_call, rtvars, supvars>>
    /\ led.pc = "commit"
    /\ led.commit = "opened"
    /\ led' = [led EXCEPT !.commit = "done", !.pc = "done"]
    /\ \E ok \in BOOLEAN :
          files' = IF ok THEN [files EXCEPT ![KBBL_PATHS.apply] = str(1)] ELSE files
    /\ UNCHANGED kb

InitKb == kb = [cache |-> -1, last_cpu_stats |-> <<>>]

NextLeds ==
    \/ UpdateLeds
    \/ \E c \in Colors : LedOpen(c)
    \/ \E c \in Colors : LedWrite(c)
    \/ LedGatherReturns
    \/ LedCommitOpen
    \/ LedCommitWrite

\* the calls of _calculate_cpu_utilization followed on one service
MaxCpuCalls == 4

CpuCallOp == "_calculate_cpu_utilization"

\* one call of _calculate_cpu_utilization on the service; `call` keeps its
\* number since construction, the time and sample it was given, the sample
\* retained before it, and what it returned
CalculateCpuUtilization ==
    /\ UNCHANGED <<files, clang, prev_call, rtvars, supvars, led>>
    /\ (call.op = CpuCallOp => call.n < MaxCpuCalls)
    /\ \E early \in BOOLEAN, stat \in CpuSamples \cup {<<>>} :
          LET c == calculate_cpu_utilization(kb, early, stat)
          IN  /\ kb' = c.kb
              /\ call' = [op |-> CpuCallOp,
                          n  |-> IF call.op = CpuCallOp THEN call.n + 1 ELSE 1,
                          early |-> early, stat |-> stat,
                          last_cpu_stats |-> kb.last_cpu_stats,
                          computed |-> kb.cache = -1,
                          ret |-> c.ret, raised |-> c.raised]

\* the method is called on another KeyboardService instance of the process: the
\* one slot of the lru cache goes to that instance, and the next call on this
\* service runs the body again
CacheEvicted ==
    /\ UNCHANGED <<files, clang, call, prev_call, rtvars, supvars, led>>
    /\ kb.cache # -1
    /\ kb' = [kb EXCEPT !.cache = -1]

NextCpu ==
    \/ CalculateCpuUtilization
    \/ CacheEvicted

-----------------------------------------------------------------------------
(* tuf_utils.py: the supervisor.  start() runs each _monitor_process in a   *)
(* multiprocessing.Process of its own, and each monitor runs its control    *)
(* loop in a further Process.  A child process works on its own copy of the *)
(* TUFUtils object, taken when it was started: a monitor reads and writes   *)
(* its copy of _running and _processes, not those of the main process.      *)
(* The signals followed here are those delivered to the main process.       *)

Names    == {"keyboard", "thermal", "power", "fan"}
Services == {"keyboard", "thermal", "power"}

\* the targets that are `async def`: the worker calls the function, gets a
\* coroutine object that nothing awaits, and returns
CoroutineTargets == {"keyboard", "fan"}

\* worker identities available to one monitor (Process objects it can refer to)
MaxWorkers  == 2
\* cleanup() calls followed
MaxCleanups == 2

WorkerIds == 1..MaxWorkers

\* the order of the four Process(...).start() calls of start()
StartOrder == <<"keyboard", "thermal", "power", "fan">>

MonUnborn == [state |-> "unborn", running |-> TRUE, procs |-> 0, pending |-> 0]

\* a control-loop function that no worker has entered
LoopNone == [pc |-> "none", running |-> TRUE, failed |-> FALSE, unread |-> {}]

\* a monitor that starts a worker only when none is recorded
needs_start_absent_only(n, m) == m.procs = 0

\* a monitor that starts a worker on every turn, without the `if`
needs_start_every_turn(n, m) == TRUE

\* `process_name not in self._processes or not self._processes[process_name].is_alive()`
\* evaluated in monitor n on its own table
needs_start(n, m) == m.procs = 0 \/ <<n, m.procs>> \notin alive

\* Process(target=...): an identity the monitor holds no reference to
new_process(n, m) ==
    CHOOSE id \in WorkerIds :
        /\ id # m.procs
        /\ <<n, id>> \notin alive
        /\ \A other \in WorkerIds : (other # m.procs /\ <<n, other>> \notin alive) => id <= other

\* process.terminate(); process.join() for every entry of a _processes table
terminate_and_join(table) == alive \ {<<n, table[n]>> : n \in DOMAIN table}

\* cleanup() in the main process
cleanup ==
    /\ running' = FALSE
    /\ alive' = terminate_and_join(processes)
    /\ fds' = [s \in Services |-> {}]
    /\ cleanups' = cleanups + 1
    /\ UNCHANGED processes

\* start(): the next Process(target=self._monitor_process, ...).start(); the child
\* starts with the parent's fields as they are now
StartMonitor ==
    /\ UNCHANGED <<svcvars, rtvars, ledvars, loopvars>>
    /\ mainpc \in 1..Len(StartOrder)
    /\ mon' = [mon EXCEPT ![StartOrder[mainpc]] =
                  [state |-> "check", running |-> running, procs |-> 0, pending |-> 0]]
    /\ mainpc' = mainpc + 1
    /\ UNCHANGED <<running, processes, cleanups, fds, alive>>

\* start(): a Process(...).start() raises: `except: self.cleanup(); raise`
StartFails ==
    /\ UNCHANGED <<svcvars, rtvars, ledvars, loopvars>>
    /\ mainpc \in 1..Len(StartOrder)
    /\ cleanups < MaxCleanups
    /\ cleanup
    /\ mainpc' = 0
    /\ UNCHANGED mon

\* SIGTERM or SIGINT in the main process: _handle_shutdown, which calls cleanup()
HandleShutdown ==
    /\ UNCHANGED <<svcvars, rtvars, ledvars, loopvars>>
    /\ mainpc >= 0
    /\ cleanups < MaxCleanups
    /\ cleanup
    /\ UNCHANGED <<mainpc, mon>>

\* _monitor_process: `while self._running:` and the `if` of one turn; the
\* asyncio.sleep(...) that ends a turn is never awaited and takes no time
MonitorCheck(n) ==
    /\ UNCHANGED <<svcvars, rtvars, ledvars, loopvars>>
    /\ mon[n].state = "check"
    /\ mon' = [mon EXCEPT ![n].state =
                  IF ~mon[n].running THEN "exited"
                  ELSE IF needs_start(n, mon[n]) THEN "start" ELSE "check"]
    /\ UNCHANGED <<running, processes, mainpc, cleanups, fds, alive>>

\* `process = Process(target=target_func, ...); process.start()`
MonitorStart(n) ==
    /\ UNCHANGED <<svcvars, rtvars, ledvars, loopvars>>
    /\ mon[n].state = "start"
    /\ LET id == new_process(n, mon[n])
       IN  /\ alive' = alive \cup {<<n, id>>}
           /\ mon' = [mon EXCEPT ![n].state = "register", ![n].pending = id]
    /\ UNCHANGED <<running, processes, mainpc, cleanups, fds>>

\* `self._processes[process_name] = process`
MonitorRegister(n) ==
    /\ UNCHANGED <<svcvars, rtvars, ledvars, loopvars>>
    /\ mon[n].state = "register"
    /\ mon' = [mon EXCEPT ![n].state = "check", ![n].procs = mon[n].pending, ![n].pending = 0]
    /\ UNCHANGED <<running, processes, mainpc, cleanups, fds, alive>>

\* a worker whose target is a coroutine function returns at once
WorkerReturns(n, id) ==
    /\ UNCHANGED <<svcvars, rtvars, ledvars, loopvars>>
    /\ n \in CoroutineTargets
    /\ <<n, id>> \in alive
    /\ alive' = alive \ {<<n, id>>}
    /\ UNCHANGED <<running, processes, mainpc, cleanups, fds, mon>>

\* a worker running a loop is killed or crashes
WorkerDies(n, id) ==
    /\ UNCHANGED <<svcvars, rtvars, ledvars, loopvars>>
    /\ n \notin CoroutineTargets
    /\ <<n, id>> \in alive
    /\ alive' = alive \ {<<n, id>>}
    /\ UNCHANGED <<running, processes, mainpc, cleanups, fds, mon>>

InitSupervisor ==
    /\ running = TRUE
    /\ processes = <<>>
    /\ mainpc = 1
    /\ cleanups = 0
    /\ fds = [s \in Services |-> {}]
    /\ mon = [n \in Names |-> MonUnborn]
    /\ alive = {}
    /\ loops = [n \in Names |-> LoopNone]
    /\ writers = {}

NextSup ==
    \/ StartMonitor
    \/ StartFails
    \/ HandleShutdown
    \/ \E n \in Names : MonitorCheck(n)
    \/ \E n \in Names : MonitorStart(n)
    \/ \E n \in Names : MonitorRegister(n)
    \/ \E n \in Names, id \in WorkerIds : WorkerReturns(n, id)
    \/ \E n \in Names, id \in WorkerIds : WorkerDies(n, id)

-----------------------------------------------------------------------------
(* Construction: main() calls TUFUtils(), whose __init__ builds the keyboard *)
(* service first.  mainpc is negative while __init__ runs: the three writes *)
(* of _initialize_keyboard, then the rest of __init__; 1 is the entry of     *)
(* start().                                                                  *)

\* the writes of _initialize_keyboard, in order
KeyboardInitWrites ==
    <<[path |-> KBBL_PATHS.mode,  content |-> str(0)],
      [path |-> KBBL_PATHS.speed, content |-> str(0)],
      [path |-> KBBL_PATHS.flags, content |-> "ff"]>>

\* main(): `except Exception: logger.error(...); sys.exit(1)` around TUFUtils()
PcAborted == -5
\* KeyboardService() is the first statement of TUFUtils.__init__
PcKeyboardInit == -4
\* the statements of TUFUtils.__init__ after KeyboardService()
PcRestOfInit == -1

\* an initialization that logs a failed write and goes on to the next one
after_init_write_swallowed(ok, pc) == pc + 1

\* _initialize_keyboard: `except Exception: logger.error(...); raise`, which
\* nothing catches before main()
after_init_write(ok, pc) == IF ok THEN pc + 1 ELSE PcAborted

\* one self._write_to_file(...) of _initialize_keyboard, retries included
KeyboardInitWrite ==
    /\ UNCHANGED <<clang, prev_call, rtvars, ledvars, loopvars>>
    /\ mainpc \in PcKeyboardInit..(PcRestOfInit - 1)
    /\ LET w == KeyboardInitWrites[mainpc - PcKeyboardInit + 1]
       IN  \E failing \in SUBSET {w.path} :
              LET e == write_to_file(w.path, w.content, failing)
              IN  /\ call' = [call EXCEPT !.op = "_initialize_keyboard",
                                          !.events = Append(@, e)]
                  /\ files' = Apply(files, <<e>>)
                  /\ mainpc' = after_init_write(e.ok, mainpc)
    /\ UNCHANGED <<running, processes, cleanups, fds, mon, alive>>

\* ThermalService(), PowerService(), the fields, _setup_signal_handlers and
\* _initialize_gamemode, which logs a failure of its write and goes on
ConstructRest ==
    /\ UNCHANGED <<clang, call, prev_call, rtvars, ledvars, loopvars>>
    /\ mainpc = PcRestOfInit
    /\ \E ok \in BOOLEAN :
          files' = IF ok THEN [files EXCEPT ![GAMEMODE_PATH] = str(0)] ELSE files
    /\ mainpc' = 1
    /\ UNCHANGED <<running, processes, cleanups, fds, mon, alive>>

\* the machine before the daemon is started
InitBoot ==
    /\ files \in {[InitFiles EXCEPT ![KBBL_PATHS.mode] = m, ![KBBL_PATHS.flags] = f,
                                     ![GAMEMODE_PATH] = g] :
                      m \in {str(0), str(1)}, f \in {"ff", "00"}, g \in {str(0), str(1)}}
    /\ InitOther
    /\ rt = RtIdle
    /\ InitKb
    /\ led = LedIdle
    /\ running = TRUE
    /\ processes = <<>>
    /\ mainpc = PcKeyboardInit
    /\ cleanups = 0
    /\ fds = [s \in Services |-> {}]
    /\ mon = [n \in Names |-> MonUnborn]
    /\ alive = {}
    /\ loops = [n \in Names |-> LoopNone]
    /\ writers = {}

NextBoot ==
    \/ KeyboardInitWrite
    \/ ConstructRest
    \/ NextSup

-----------------------------------------------------------------------------
(* The four control-loop functions: _control_keyboard_led, _control_thermal, *)
(* _control_power (tuf_utils.py) and auto_fan_control (power.py), each run   *)
(* on the copy of the TUFUtils object that the process running it holds.     *)
(* The thermal and power loops are plain functions.  The keyboard and fan    *)
(* loops are coroutine functions: their body runs when an event loop awaits  *)
(* them, which is how they are followed here; started through                *)
(* TUFUtils.start they are never awaited (WorkerReturns).                    *)

\* TUFUtils._performance_mode of the object a worker runs on: False since __init__
worker_performance_mode == FALSE

\* _read_gpu_utilization: tuf_utils.py does not import aiofiles, the NameError
\* is caught by `except Exception` and the method returns 0
read_gpu_utilization == 0

\* `finally: await asyncio.sleep(...)` in the coroutine functions suspends the
\* loop; `finally: asyncio.sleep(...)` in _control_thermal and _control_power
\* builds a coroutine object that is dropped, and takes no time
sleep_is_awaited(n) == n \in CoroutineTargets

\* `while self._running:` of the three TUFUtils loops, `while True:` of auto_fan_control
loop_condition(n, l) == IF n = "fan" THEN TRUE ELSE l.running

\* the gateway calls of one iteration of loop n, in order
loop_body(n, rfail, wfail, cpu_utilization) ==
    IF n = "thermal" THEN update_thermal_policy(rfail, wfail).events
    ELSE IF n = "power"
    THEN LET b == is_on_battery(rfail)
         IN  b.events \o optimize_power_settings(b.on_battery, worker_performance_mode, wfail)
    ELSE IF n = "fan" THEN auto_fan_control(rfail, wfail).events
    ELSE LET b == is_on_battery(rfail)
             v == led_values(cpu_utilization, read_gpu_utilization, b.on_battery)
         IN  b.events
               \o [i \in 1..3 |->
                     LET c == <<"red", "green", "blue">>[i]
                     IN  write_to_file(KBBL_PATHS[c], str(v[c]), wfail)]
               \o <<write_to_file(KBBL_PATHS.apply, str(1), wfail)>>

\* the device control files an iteration writes without having read them
\* earlier in the same iteration
written_unread(events) ==
    {events[i].path : i \in {j \in 1..Len(events) :
        /\ events[j].kind = "write"
        /\ events[j].path \in ControlPaths
        /\ ~\E k \in 1..(j - 1) : events[k].kind = "read" /\ events[k].path = events[j].path}}

\* the paths whose reads and writes may fail in an iteration of loop n
LoopReadFailures(n) ==
    IF n = "fan" THEN {{}, {FAN_CONTROL_PATH}}
    ELSE IF n = "power" THEN {{}}
    ELSE {{}, {BATTERY_STATUS_PATH}}

LoopWriteFailures(n) == IF n = "power" THEN {{}, {GPU_POWER_PATH}} ELSE {{}}

\* a worker process calls the loop function: the object it runs on is the copy
\* its monitor holds
LoopEnter(n) ==
    /\ UNCHANGED <<svcvars, rtvars, ledvars>>
    /\ mon[n].state = "check"
    /\ mon[n].running
    /\ loops[n].pc = "none"
    /\ loops' = [loops EXCEPT ![n] = [LoopNone EXCEPT !.pc = "test", !.running = mon[n].running]]
    /\ UNCHANGED <<running, processes, mainpc, cleanups, fds, mon, alive, writers>>

\* the `while` test at the head of an iteration and, when it passes, the `try:`
\* block; the service methods log the failure of a read or a write and carry
\* on, so the block runs to its end
LoopIteration(n) ==
    /\ UNCHANGED <<clang, call, prev_call, rtvars, led>>
    /\ loops[n].pc = "test"
    /\ loop_condition(n, loops[n])
    /\ \E rfail \in LoopReadFailures(n), wfail \in LoopWriteFailures(n), early \in BOOLEAN :
          LET c      == calculate_cpu_utilization(kb, early, <<100, 500>>)
              events == loop_body(n, rfail, wfail, c.ret)
          IN  /\ n # "keyboard" => early
              /\ kb' = IF n = "keyboard" THEN c.kb ELSE kb
              /\ files' = Apply(files, events)
              /\ writers' = writers \cup {<<n, events[i].path>> :
                                             i \in {j \in 1..Len(events) : events[j].kind = "write"}}
              /\ loops' = [loops EXCEPT ![n].pc = "finally",
                                        ![n].failed = \E i \in 1..Len(events) : ~events[i].ok,
                                        ![n].unread = written_unread(events)]
    /\ UNCHANGED <<running, processes, mainpc, cleanups, fds, mon, alive>>

\* the `while` test fails: the function returns and the worker exits
LoopExit(n) ==
    /\ UNCHANGED <<svcvars, rtvars, ledvars>>
    /\ loops[n].pc = "test"
    /\ ~loop_condition(n, loops[n])
    /\ loops' = [loops EXCEPT ![n].pc = "exited"]
    /\ UNCHANGED <<running, processes, mainpc, cleanups, fds, mon, alive, writers>>

\* SIGTERM or SIGINT delivered to the worker process itself: the handler it
\* inherited sets the _running of its own copy (its cleanup() finds an empty
\* _processes)
LoopSignal(n) ==
    /\ UNCHANGED <<svcvars, rtvars, ledvars>>
    /\ loops[n].pc \notin {"none", "exited"}
    /\ loops[n].running
    /\ loops' = [loops EXCEPT ![n].running = FALSE]
    /\ UNCHANGED <<running, processes, mainpc, cleanups, fds, mon, alive, writers>>

\* the `finally:` block: the call of asyncio.sleep
LoopFinally(n) ==
    /\ UNCHANGED <<svcvars, rtvars, ledvars>>
    /\ loops[n].pc = "finally"
    /\ loops' = [loops EXCEPT ![n].pc = IF sleep_is_awaited(n) THEN "sleep" ELSE "test",
                              ![n].failed = FALSE,
                              ![n].unread = {}]
    /\ UNCHANGED <<running, processes, mainpc, cleanups, fds, mon, alive, writers>>

\* the awaited sleep is over
LoopWake(n) ==
    /\ UNCHANGED <<svcvars, rtvars, ledvars>>
    /\ loops[n].pc = "sleep"
    /\ loops' = [loops EXCEPT ![n].pc = "test"]
    /\ UNCHANGED <<running, processes, mainpc, cleanups, fds, mon, alive, writers>>

\* the machine the loops start on: hot, on the charger or on battery
InitLoops ==
    /\ files \in {[InitFiles EXCEPT ![TEMP_PATHS.cpu] = str(82000), ![BATTERY_STATUS_PATH] = b] :
                      b \in {"Charging", "Discharging"}}
    /\ InitOther
    /\ rt = RtIdle
    /\ InitKb
    /\ led = LedIdle
    /\ InitSupervisor

NextLoops ==
    \/ StartMonitor
    \/ HandleShutdown
    \/ \E n \in Names : LoopEnter(n)
    \/ \E n \in Names : LoopIteration(n)
    \/ \E n \in Names : LoopExit(n)
    \/ \E n \in Names : LoopSignal(n)
    \/ \E n \in Names : LoopFinally(n)
    \/ \E n \in Names : LoopWake(n)

-----------------------------------------------------------------------------
(* tuf_utils.py: set_performance_mode called on the TUFUtils object of the  *)
(* main process while the power loop runs in its worker process.  _control_ *)
(* power reads self._performance_mode of the worker's copy of the object,   *)
(* which is worker_performance_mode, the value at the time of start().      *)

\* set_performance_mode(enabled): the flag of the main object is assigned, then
\* is_on_battery() and optimize_power_settings(on_battery, enabled)
set_performance_mode(enabled, rfail, wfail) ==
    LET b == is_on_battery(rfail)
    IN  b.events \o optimize_power_settings(b.on_battery, enabled, wfail)

\* a call in the main process after start() has returned; call.args keeps the
\* flag now stored in the main object
SetPerformanceMode ==
    /\ mainpc = Len(StartOrder) + 1
    /\ \E enabled \in BOOLEAN, wfail \in {{}, {GPU_POWER_PATH}} :
          Completed(SetCall("set_performance_mode", <<enabled>>,
                            set_performance_mode(enabled, {}, wfail)))
    /\ ServiceFrame

NextPerf ==
    \/ StartMonitor
    \/ SetPerformanceMode
    \/ BatteryChanges
    \/ LoopEnter("power")
    \/ LoopIteration("power")
    \/ LoopFinally("power")

-----------------------------------------------------------------------------
(* services/base.py: the handle cache of one service, _file_descriptors,    *)
(* behind _read_from_file and _write_to_file.  A call is followed as a      *)
(* whole, retries included: `ok` is whether it returned or raised.          *)

StoreOps == {"_read_from_file", "_write_to_file"}

\* the paths a service reads or writes through the store
StorePaths(s) ==
    IF s = "keyboard" THEN {KBBL_PATHS.mode, KBBL_PATHS.flags}
    ELSE IF s = "thermal" THEN {THROTTLE_POLICY_PATH, GAMEMODE_PATH}
    ELSE {FAN_CONTROL_PATH, GPU_POWER_PATH}

StoreContents == {str(0), str(1)}

\* _get_cached_file: the handle of _file_descriptors, rewound, when the path has
\* one; else `with open(filepath, mode) as f: yield f`, a handle opened for this
\* call and closed when the caller's block is left.  Neither branch assigns to
\* _file_descriptors
get_cached_file(file_descriptors, filepath) ==
    IF filepath \in file_descriptors
    THEN [opened |-> FALSE, file_descriptors |-> file_descriptors]
    ELSE [opened |-> TRUE,  file_descriptors |-> file_descriptors]

\* _close_cached_files: close every cached handle and clear the cache
close_cached_files(file_descriptors) == {}

StoreCall(op, s, filepath, ok, opened) ==
    [op |-> op, service |-> s, path |-> filepath, ok |-> ok, opened |-> opened]

StoreFrame ==
    UNCHANGED <<clang, prev_call, rtvars, ledvars,
                running, processes, mainpc, cleanups, mon, alive, loopvars>>

StoreRead(s) ==
    /\ StoreFrame
    /\ \E filepath \in StorePaths(s), ok \in BOOLEAN :
          LET h == get_cached_file(fds[s], filepath)
          IN  /\ fds' = [fds EXCEPT ![s] = h.file_descriptors]
              /\ call' = StoreCall("_read_from_file", s, filepath, ok, h.opened)
    /\ UNCHANGED files

StoreWrite(s) ==
    /\ StoreFrame
    /\ \E filepath \in StorePaths(s), content \in StoreContents, ok \in BOOLEAN :
          LET h == get_cached_file(fds[s], filepath)
          IN  /\ fds' = [fds EXCEPT ![s] = h.file_descriptors]
              /\ call' = StoreCall("_write_to_file", s, filepath, ok, h.opened)
              /\ files' = IF ok THEN [files EXCEPT ![filepath] = content] ELSE files

\* BaseService.cleanup
StoreCleanup(s) ==
    /\ StoreFrame
    /\ fds' = [fds EXCEPT ![s] = close_cached_files(fds[s])]
    /\ call' = StoreCall("cleanup", s, "", TRUE, FALSE)
    /\ UNCHANGED files

NextStore ==
    \/ \E s \in Services : StoreRead(s)
    \/ \E s \in Services : StoreWrite(s)
    \/ \E s \in Services : StoreCleanup(s)

-----------------------------------------------------------------------------
(* The specifications *)

\* the state after TUFUtils() has been constructed
Init ==
    /\ files = InitFiles
    /\ InitOther
    /\ rt = RtIdle
    /\ InitKb
    /\ led = LedIdle
    /\ InitSupervisor

\* the fan, power-profile and gpu files hold whatever mode the machine was left in
InitPower ==
    /\ files \in {[InitFiles EXCEPT ![FAN_CONTROL_PATH] = fan] : fan \in ModeTexts}
    /\ InitOther
    /\ rt = RtIdle
    /\ InitKb
    /\ led = LedIdle
    /\ InitSupervisor

InitThermal ==
    /\ files \in {[InitFiles EXCEPT ![THROTTLE_POLICY_PATH] = policy] : policy \in ModeTexts}
    /\ InitOther
    /\ rt = RtIdle
    /\ InitKb
    /\ led = LedIdle
    /\ InitSupervisor

SpecPower   == InitPower   /\ [][NextPower]_vars
SpecThermal == InitThermal /\ [][NextThermal]_vars
SpecRetry   == Init /\ [][NextRetry]_vars
SpecLeds    == Init /\ [][NextLeds]_vars
SpecCpu     == Init /\ [][NextCpu]_vars
SpecStore   == Init /\ [][NextStore]_vars
SpecSup     == Init /\ [][NextSup]_vars
SpecBoot    == InitBoot /\ [][NextBoot]_vars
SpecLoops   == InitLoops /\ [][NextLoops]_vars
SpecPerf    == InitLoops /\ [][NextPerf]_vars

\* the next step of monitor n, whatever its position
MonitorStep(n) == MonitorCheck(n) \/ MonitorStart(n) \/ MonitorRegister(n)

\* every monitor is a process of its own that the operating system keeps scheduling
FairSup == SpecSup /\ \A n \in Names : WF_vars(MonitorStep(n))

-----------------------------------------------------------------------------
(* Properties of the power service, under SpecPower *)

AllOk(events) == \A i \in 1..Len(events) : events[i].ok

WritesTo(events, path) ==
    Len(SelectSeq(events, LAMBDA e : e.kind = "write" /\ e.path = path))

\* the write events of a call are exactly the writes of `vals` to `path`, in order
WroteExactly(events, path, vals) ==
    LET w == Writes(events)
    IN  /\ Len(w) = Len(vals)
        /\ \A i \in 1..Len(w) : w[i].path = path /\ w[i].val = vals[i]

C2_DecisionTable ==
    (call.op = "optimize_power_settings" /\ AllOk(call.events)) =>
        LET on_battery       == call.args[1]
            performance_mode == call.args[2]
            profile          == files[POWER_PROFILE_PATH]
            gpu              == files[GPU_POWER_PATH]
            fan              == files[FAN_CONTROL_PATH]
        IN  /\ (on_battery /\ ~performance_mode) =>
                  /\ profile = str(POWER_PROFILES.powersave)
                  /\ gpu = str(GPU_MODES.eco)
                  /\ fan = str(FAN_MODES.silent)
            /\ (on_battery /\ performance_mode) =>
                  /\ profile = str(POWER_PROFILES.powersave)
                  /\ gpu = str(GPU_MODES.eco)
                  /\ WritesTo(call.events, FAN_CONTROL_PATH) = 0
            /\ (~on_battery /\ performance_mode) =>
                  /\ profile = str(POWER_PROFILES.performance)
                  /\ gpu = str(GPU_MODES.boost)
                  /\ fan = str(FAN_MODES.boost)
            /\ (~on_battery /\ ~performance_mode) =>
                  /\ profile = str(POWER_PROFILES.balanced)
                  /\ gpu = str(GPU_MODES.standard)
                  /\ fan = str(FAN_MODES.normal)

\* on battery with performance mode, a fan left in boost by an earlier call
C2_Witness ==
    /\ call.op = "optimize_power_settings"
    /\ AllOk(call.events)
    /\ call.args = <<TRUE, TRUE>>
    /\ files[POWER_PROFILE_PATH] = str(POWER_PROFILES.powersave)
    /\ files[FAN_CONTROL_PATH] = str(FAN_MODES.boost)

\* C9: a "set" operation called twice in a row with the same target, every
\* write succeeding, writes each control file it targets exactly once over the
\* two calls
C9_RedundantWriteSuppressed ==
    (prev_call.op # "none" /\ AllOk(prev_call.events) /\ AllOk(call.events)) =>
        \A p \in ControlPaths :
            WritesTo(prev_call.events, p) + WritesTo(call.events, p) =
                IF WritesTo(prev_call.events, p) > 0 THEN 1 ELSE 0

\* a read of a temperature file by the call failed or gave a text that is no number
TemperatureReadFailed(events) ==
    \E i \in 1..Len(events) :
        /\ events[i].kind = "read"
        /\ events[i].path \in {TEMP_PATHS.cpu, TEMP_PATHS.gpu}
        /\ ~(events[i].ok /\ IsNumeric(events[i].val))

\* C28: an auto-fan step in which the read of either temperature file fails
\* takes both temperatures as 0: it evaluates max 0, writes normal when the fan
\* mode it read is boost, and writes nothing otherwise
C28_TemperatureFailSafe ==
    (call.op = "auto_fan_control" /\ TemperatureReadFailed(call.events)) =>
        /\ call.max_temp = 0
        /\ call.current = FAN_MODES.boost
              => WroteExactly(call.events, FAN_CONTROL_PATH, <<str(FAN_MODES.normal)>>)
        /\ call.current # FAN_MODES.boost => Writes(call.events) = <<>>

\* the cpu file was read, the gpu read failed, the fan was in boost: normal is written
C28_Witness ==
    /\ call.op = "auto_fan_control"
    /\ Len(call.events) = 4
    /\ call.events[1].ok
    /\ ~call.events[2].ok
    /\ call.events[2].path = TEMP_PATHS.gpu
    /\ call.current = FAN_MODES.boost
    /\ call.events[4].ok
    /\ files[FAN_CONTROL_PATH] = str(FAN_MODES.normal)

\* C20: after optimize_power_settings, every write succeeding, the profile and
\* gpu files hold the codes test_optimize_power_settings and
\* test_performance_mode read back: 0 and 0 on battery without performance
\* mode, 2 and 2 on AC with performance mode, 1 and 1 on AC without it
C20_CodesTheTestsAssert ==
    (call.op = "optimize_power_settings" /\ AllOk(call.events)) =>
        LET on_battery == call.args[1]
            perf       == call.args[2]
            profile    == files[POWER_PROFILE_PATH]
            gpu        == files[GPU_POWER_PATH]
        IN  /\ (on_battery /\ ~perf)  => (profile = "0" /\ gpu = "0")
            /\ (~on_battery /\ perf)  => (profile = "2" /\ gpu = "2")
            /\ (~on_battery /\ ~perf) => (profile = "1" /\ gpu = "1")

-----------------------------------------------------------------------------
(* Properties of the thermal service, under SpecThermal *)

\* what the call read from `path`, "" when it did not read it
ReadOf(events, path) ==
    LET r == SelectSeq(events, LAMBDA e : e.kind \in {"read", "scan"} /\ e.path = path)
    IN  IF r = <<>> THEN "" ELSE r[1].val

\* C3: after one update_thermal_policy whose reads and writes all succeed, the
\* policy file holds silent when the battery status contains "Discharging",
\* whatever the policy was and whatever gamemode and the process scan say; boost
\* off battery with gamemode 1, whatever the scan says; normal off battery with
\* gamemode 0 and no compiler process
C3_ThermalPolicy ==
    (call.op = "update_thermal_policy" /\ AllOk(call.events)) =>
        LET on_battery == ContainsDischarging(ReadOf(call.events, BATTERY_STATUS_PATH))
            gamemode   == ReadOf(call.events, GAMEMODE_PATH)
            compiling  == ReadOf(call.events, "clang") # ""
            policy     == files[THROTTLE_POLICY_PATH]
        IN  /\ on_battery => policy = str(THROTTLE_POLICIES.silent)
            /\ (~on_battery /\ gamemode = "1") => policy = str(THROTTLE_POLICIES.boost)
            /\ (~on_battery /\ gamemode = "0" /\ ~compiling)
                  => policy = str(THROTTLE_POLICIES.normal)

\* on battery with gamemode 1 and a compiler running: silent is written over boost
C3_Witness ==
    /\ call.op = "update_thermal_policy"
    /\ AllOk(call.events)
    /\ ReadOf(call.events, BATTERY_STATUS_PATH) = "Discharging"
    /\ call.current = THROTTLE_POLICIES.boost
    /\ files[GAMEMODE_PATH] = "1"
    /\ clang
    /\ WritesTo(call.events, THROTTLE_POLICY_PATH) = 1
    /\ files[THROTTLE_POLICY_PATH] = str(THROTTLE_POLICIES.silent)

\* the values of the events of one kind, in order
ValsOf(events, kind) ==
    LET sel == SelectSeq(events, LAMBDA e : e.kind = kind)
    IN  [i \in 1..Len(sel) |-> sel[i].val]

\* the policy writes and tuning commands a branch with a comparison may issue
ComparedBranch(c, target, opt) ==
    IF c.current # target
    THEN /\ ValsOf(c.events, "write") = <<str(target)>>
         /\ ValsOf(c.events, "cmd") = <<"kernel.sched_tt_balancer_opt=" \o str(opt)>>
    ELSE /\ ValsOf(c.events, "write") = <<>>
         /\ ValsOf(c.events, "cmd") = <<>>

\* C21: update_thermal_policy on battery, with gamemode 1, and in the default
\* branch writes its target policy once and issues the tuning command (3 for
\* silent, 1 for boost and normal) when the policy it read differs from the
\* target, and writes nothing and issues no command when it equals the target;
\* in the compiler branch it writes boost once on every call and issues no command
C21_RedundantWriteSuppression ==
    (call.op = "update_thermal_policy") =>
        LET on_battery == ContainsDischarging(ReadOf(call.events, BATTERY_STATUS_PATH))
            gamemode   == ReadOf(call.events, GAMEMODE_PATH)
            compiling  == ReadOf(call.events, "clang") # ""
        IN  IF on_battery THEN ComparedBranch(call, THROTTLE_POLICIES.silent, 3)
            ELSE IF IsNumeric(gamemode) /\ int(gamemode) = 1
            THEN ComparedBranch(call, THROTTLE_POLICIES.boost, 1)
            ELSE IF compiling
            THEN /\ ValsOf(call.events, "write") = <<str(THROTTLE_POLICIES.boost)>>
                 /\ ValsOf(call.events, "cmd") = <<>>
            ELSE ComparedBranch(call, THROTTLE_POLICIES.normal, 1)

\* the compiler branch taken with the policy already boost: boost is written again
C21_Witness ==
    /\ call.op = "update_thermal_policy"
    /\ AllOk(call.events)
    /\ ~ContainsDischarging(ReadOf(call.events, BATTERY_STATUS_PATH))
    /\ ReadOf(call.events, GAMEMODE_PATH) = "0"
    /\ ReadOf(call.events, "clang") # ""
    /\ call.current = THROTTLE_POLICIES.boost
    /\ ValsOf(call.events, "write") = <<str(THROTTLE_POLICIES.boost)>>

-----------------------------------------------------------------------------
(* Properties of the retry wrapper, under SpecRetry *)

AllFailed(log) == \A i \in 1..Len(log) : ~log[i].ok

RECURSIVE Pow2(_)
Pow2(n) == IF n = 0 THEN 1 ELSE 2 * Pow2(n - 1)

\* C7: a read or write that fails on every attempt is attempted exactly
\* MAX_RETRIES times and then raises: it never returns, it makes no further
\* attempt, and it sleeps between the attempts only, not after the last one
C7_ExhaustedRetriesRaise ==
    /\ Len(rt.log) <= MAX_RETRIES
    /\ (rt.op # "none" /\ AllFailed(rt.log)) => rt.pc # "returned"
    /\ rt.pc = "raised" =>
          /\ AllFailed(rt.log)
          /\ Len(rt.log) = MAX_RETRIES
          /\ Len(rt.sleeps) = MAX_RETRIES - 1
    /\ (rt.pc = "except" /\ Len(rt.log) = MAX_RETRIES) => Len(rt.sleeps) = MAX_RETRIES - 1

\* three failed attempts, then the exception reaches the caller
C7_Witness ==
    /\ rt.pc = "raised"
    /\ Len(rt.log) = 3
    /\ AllFailed(rt.log)
    /\ rt.sleeps = <<1, 2>>

\* C8: a read or write that fails k < MAX_RETRIES times and then succeeds
\* returns what attempt k+1 returned, having slept INITIAL_RETRY_DELAY * 2^(i-1)
\* after the i-th failure: INITIAL_RETRY_DELAY + 2 * INITIAL_RETRY_DELAY in all
\* before a third attempt
C8_BackoffThenSuccess ==
    rt.pc = "returned" =>
        LET k == Len(rt.log) - 1
        IN  /\ k \in 0..(MAX_RETRIES - 1)
            /\ \A i \in 1..k : ~rt.log[i].ok
            /\ rt.log[k + 1].ok
            /\ rt.result = rt.log[k + 1].val
            /\ Len(rt.sleeps) = k
            /\ \A i \in 1..k : rt.sleeps[i] = INITIAL_RETRY_DELAY * Pow2(i - 1)
            /\ k = 2 => rt.sleeps[1] + rt.sleeps[2]
                          = INITIAL_RETRY_DELAY + 2 * INITIAL_RETRY_DELAY

\* a read that succeeds on its third attempt
C8_Witness ==
    /\ rt.pc = "returned"
    /\ rt.op = "read"
    /\ Len(rt.log) = 3
    /\ ~rt.log[1].ok /\ ~rt.log[2].ok /\ rt.log[3].ok
    /\ rt.result = rt.log[3].val
    /\ rt.sleeps = <<1, 2>>

-----------------------------------------------------------------------------
(* Properties of update_leds, under SpecLeds *)

\* C10: in every interleaving of the three channel writes of one update_leds
\* call, the commit write is issued only after the red, green and blue writes
\* have all finished, and the call issues exactly one commit
C10_CommitAfterChannels ==
    /\ led.commit # "idle" => \A c \in Colors : led.task[c] = "done"
    /\ led.commits <= 1
    /\ led.pc \in {"commit", "done"} => led.commits = 1
    /\ led.pc = "gather" => led.commits = 0

\* the commit has been written after all three channels were
C10_Witness ==
    /\ led.pc = "done"
    /\ led.commit = "done"
    /\ led.commits = 1
    /\ \A c \in Colors : led.task[c] = "done" /\ files[KBBL_PATHS[c]] = str(led.value[c])
    /\ led.value.green = 40
    /\ files[KBBL_PATHS.apply] = "1"

\* the largest integer not above 8/10 of x, for x >= 0
IsFourFifths(v, x) == 5 * v <= 4 * x /\ 4 * x < 5 * v + 5

IsScaled(v, x, dimmed) == IF dimmed THEN IsFourFifths(v, x) ELSE v = x

\* C11: update_leds hands red = cpu, green = gpu and blue = 255 - max(cpu, gpu)
\* to the channel writes, each times the brightness coefficient (1.0, or 0.8
\* when dimmed) and truncated, cpu being what _calculate_cpu_utilization
\* returned to that call; a channel write that succeeds leaves that number in
\* the channel file
C11_LedColors ==
    /\ [](led.pc # "idle" =>
            /\ led.cpu_utilization \in 0..100
            /\ IsScaled(led.value.red, led.cpu_utilization, led.is_dimmed)
            /\ IsScaled(led.value.green, led.gpu_utilization, led.is_dimmed)
            /\ IsScaled(led.value.blue,
                        LED_MAX_VALUE - Max(led.cpu_utilization, led.gpu_utilization),
                        led.is_dimmed))
    /\ [][\A c \in Colors :
            files'[KBBL_PATHS[c]] # files[KBBL_PATHS[c]]
                => /\ led.pc = "gather"
                   /\ files'[KBBL_PATHS[c]] = str(led.value[c])]_vars

\* a dimmed update with cpu 100 and gpu 33 has written 80, 26 and 124
C11_Witness ==
    /\ led.pc = "done"
    /\ led.is_dimmed
    /\ led.cpu_utilization = 100
    /\ led.gpu_utilization = 33
    /\ files[KBBL_PATHS.red] = "80"
    /\ files[KBBL_PATHS.green] = "26"
    /\ files[KBBL_PATHS.blue] = "124"

-----------------------------------------------------------------------------
(* Properties of _calculate_cpu_utilization, under SpecCpu *)

\* C15: the first call after construction returns 0, whether or not
\* CPU_UPDATE_INTERVAL has passed since construction
C15_FirstCallReturnsZero ==
    (call.op = CpuCallOp /\ call.n = 1) => call.ret = 0

\* C16: a second call, CPU_UPDATE_INTERVAL or more after a first call that
\* retained (idle1, total1), reading (idle2, total2) with total2 > total1,
\* returns 100 * (1 - (idle2 - idle1) / (total2 - total1)) as an integer and
\* retains (idle2, total2)
C16_SecondCallUsesDelta ==
    (/\ call.op = CpuCallOp
     /\ call.n = 2
     /\ ~call.early
     /\ call.stat # <<>>
     /\ call.last_cpu_stats # <<>>
     /\ call.stat[2] > call.last_cpu_stats[2])
    => LET idle_delta  == call.stat[1] - call.last_cpu_stats[1]
           total_delta == call.stat[2] - call.last_cpu_stats[2]
       IN  /\ call.ret = trunc_div(100 * (total_delta - idle_delta), total_delta)
           /\ kb.last_cpu_stats = call.stat

\* the call ran the body past the interval test and read a sample whose total
\* is that of the retained sample
ZeroTotalDelta ==
    /\ call.op = CpuCallOp
    /\ call.computed
    /\ ~call.early
    /\ call.stat # <<>>
    /\ call.last_cpu_stats # <<>>
    /\ call.stat[2] = call.last_cpu_stats[2]

\* C23: a recomputation that reads a sample whose total equals the total of the
\* previous sample returns 0, and no exception reaches the caller
C23_ZeroDeltaReturnsZero == ZeroTotalDelta => (call.ret = 0 /\ ~call.raised)

\* (100, 500) is retained and (150, 500) is read: idle moved, total did not
C23_Witness ==
    /\ ZeroTotalDelta
    /\ call.last_cpu_stats = <<100, 500>>
    /\ call.stat = <<150, 500>>
    /\ call.ret = 0

-----------------------------------------------------------------------------
(* Properties of the handle cache, under SpecStore *)

\* C18: after a store read or write that succeeded, the service's cache holds
\* a handle for the path; and a read or write of a path whose handle is in the
\* cache opens no file
C18_HandleCachedAndReused ==
    /\ []((call.op \in StoreOps /\ call.ok) => call.path \in fds[call.service])
    /\ [][(call'.op \in StoreOps /\ call' # call /\ call'.path \in fds[call'.service])
            => ~call'.opened]_vars

-----------------------------------------------------------------------------
(* Properties of the supervisor, under SpecSup and FairSup *)

Started == mainpc = Len(StartOrder) + 1

Forked(n) == mon[n].state \in {"check", "start", "register"}

NoWorker(n) == ~\E id \in WorkerIds : <<n, id>> \in alive

\* the worker monitor n has recorded is absent or dead
RecordedDead(n) == mon[n].procs = 0 \/ <<n, mon[n].procs>> \notin alive

\* C4: while its running flag is set, a monitor whose liveness check finds no
\* worker recorded under its name, or a dead one, starts a fresh worker next and
\* records it under that name; this follows every death of the worker
C4_RestartAfterDeath ==
    /\ [][\A n \in Names :
            /\ (mon[n].state = "check" /\ mon[n].running /\ RecordedDead(n))
                  => mon'[n].state \in {"check", "start"}
            /\ (mon[n].state = "start" /\ mon'[n].state # "start")
                  => /\ mon'[n].state = "register"
                     /\ mon'[n].pending # mon[n].procs
                     /\ <<n, mon'[n].pending>> \in alive' \ alive
            /\ (mon[n].state = "register" /\ mon'[n].state # "register")
                  => /\ mon'[n].state = "check"
                     /\ mon'[n].procs = mon[n].pending]_vars
    /\ \A n \in Names :
          (mon[n].state = "check" /\ mon[n].running /\ RecordedDead(n))
              ~> (mon[n].state = "register" /\ mon[n].pending # 0)

\* a worker was recorded, died, and its replacement has been started
C4_Witness ==
    \E n \in Names :
        /\ mon[n].state = "register"
        /\ mon[n].running
        /\ mon[n].procs # 0
        /\ <<n, mon[n].procs>> \notin alive
        /\ <<n, mon[n].pending>> \in alive

\* C12: when a write of _initialize_keyboard fails after its retries, main
\* aborts: no monitor and no worker is ever started, and the writes that come
\* after the failed one are not attempted; the writes are mode, speed, flags
C12_InitFailureAborts ==
    /\ mainpc = PcAborted =>
          /\ \A n \in Names : mon[n] = MonUnborn
          /\ alive = {}
          /\ call.op = "_initialize_keyboard"
          /\ Len(call.events) \in 1..Len(KeyboardInitWrites)
          /\ ~call.events[Len(call.events)].ok
    /\ call.op = "_initialize_keyboard" =>
          /\ Len(call.events) <= Len(KeyboardInitWrites)
          /\ \A i \in 1..Len(call.events) :
                /\ call.events[i].kind = "write"
                /\ call.events[i].path = KeyboardInitWrites[i].path
                /\ call.events[i].val = KeyboardInitWrites[i].content
                /\ ~call.events[i].ok => (i = Len(call.events) /\ mainpc = PcAborted)

\* the speed write failed after the mode write succeeded: flags is never written
C12_Witness ==
    /\ mainpc = PcAborted
    /\ Len(call.events) = 2
    /\ call.events[1].ok
    /\ call.events[2].path = KBBL_PATHS.speed
    /\ files[KBBL_PATHS.flags] = "00"

NoHandles == \A s \in Services : fds[s] = {}

\* C5: when cleanup returns after start() has run, the running flag is false,
\* no control-loop worker is alive, and no service holds a cached handle
C5_CleanupStopsWorkers ==
    [][(Started /\ cleanups' = cleanups + 1)
          => (~running' /\ alive' = {} /\ NoHandles')]_vars

\* C6: a second cleanup leaves the state the first one is to leave: the running
\* flag false, all workers stopped, all cached handles released
C6_CleanupIdempotent ==
    [][(cleanups >= 1 /\ cleanups' = cleanups + 1)
          => (~running' /\ alive' = {} /\ NoHandles')]_vars

\* C19: when a monitor has started a worker and recorded it, the process table
\* of the supervisor object of the main process, the one cleanup is invoked
\* on, maps the name to that worker and the worker is alive
C19_WorkerRecordedInSupervisor ==
    [][\A n \in Names :
          (mon[n].state = "register" /\ mon'[n].state = "check")
              => (n \in DOMAIN processes' /\ <<n, processes'[n]>> \in alive')]_vars

\* C27: once cleanup has cleared the running flag no monitor starts a worker:
\* from then on no worker that is not alive becomes alive, so none started
\* during or after cleanup is left alive
C27_NoStartAfterShutdown ==
    [][~running => alive' \subseteq alive]_vars

\* C30: a worker that has been started stays alive, running its loop, until it
\* is killed or crashes or cleanup terminates it: no step in which a worker
\* stops being alive is the worker leaving its loop function on its own
C30_WorkerRunsItsLoop ==
    [][\A n \in Names, id \in WorkerIds :
          (<<n, id>> \in alive /\ <<n, id>> \notin alive')
              => (WorkerDies(n, id) \/ cleanups' = cleanups + 1)]_vars

\* the live workers of loop n
LiveWorkers(n) == {id \in WorkerIds : <<n, id>> \in alive}

\* C26: at most one worker per control-loop name is alive at any moment, and a
\* monitor is about to start a worker only when it has none recorded or the
\* recorded one is not alive
C26_OneWorkerPerName ==
    \A n \in Names :
        /\ Cardinality(LiveWorkers(n)) <= 1
        /\ mon[n].state = "start" => RecordedDead(n)

\* a replacement worker is alive after the first one of the loop died
C26_Witness ==
    \E n \in Names :
        /\ mon[n].procs = 2
        /\ mon[n].state = "check"
        /\ LiveWorkers(n) = {2}

-----------------------------------------------------------------------------
(* Properties of the control loops, under SpecLoops *)

\* C13: in each of the four loops an iteration in which a gateway read or
\* write failed is followed by the loop's periodic sleep and then by the next
\* test of the loop condition; the loop does not end because of the failure
C13_FailureEndsOnlyIteration ==
    [][\A n \in Names :
          /\ (loops[n].pc = "finally" /\ loops[n].failed /\ loops'[n].pc # "finally")
                => loops'[n].pc = "sleep"
          /\ (loops[n].pc = "sleep" /\ loops'[n].pc # "sleep") => loops'[n].pc = "test"]_vars

\* C14: once cleanup has returned with the flag cleared every loop has exited,
\* and a loop at its iteration boundary after the flag was cleared starts no
\* further iteration
C14_LoopsObserveShutdown ==
    /\ []((~running /\ cleanups >= 1) => \A n \in Names : loops[n].pc \in {"none", "exited"})
    /\ [][\A n \in Names :
            (~running /\ loops[n].pc = "test") => loops'[n].pc \in {"test", "exited"}]_vars

\* C22: in every iteration of every loop each write to a device control file
\* (fan mode, power profile, gpu mode, throttle policy) comes after a read of
\* that file in the same iteration
C22_ReadBeforeWrite == \A n \in Names : loops[n].unread = {}

\* the decimal texts of the brightness range
BrightnessTexts == {str(v) : v \in 0..LED_MAX_VALUE}

MaxTempNow == Max(int(files[TEMP_PATHS.cpu]), int(files[TEMP_PATHS.gpu]))

\* C25: once the fan loop has written boost to the fan control file, no step
\* of any loop replaces it with another mode while the max temperature is at
\* or above the lower threshold of 70 degrees
C25_NoFlapAboveLowerThreshold ==
    [][(/\ <<"fan", FAN_CONTROL_PATH>> \in writers
        /\ files[FAN_CONTROL_PATH] = str(FAN_MODES.boost)
        /\ MaxTempNow >= (FAN_TEMP_THRESHOLD - 5) * 1000)
          => files'[FAN_CONTROL_PATH] = str(FAN_MODES.boost)]_vars

\* the three files hold performance, boost and boost
PerformanceApplied ==
    /\ files[POWER_PROFILE_PATH] = str(POWER_PROFILES.performance)
    /\ files[GPU_POWER_PATH] = str(GPU_MODES.boost)
    /\ files[FAN_CONTROL_PATH] = str(FAN_MODES.boost)

\* C29 (under SpecPerf): after set_performance_mode(True) off battery has
\* applied performance, boost and boost, the three files keep these values
\* through every step, the iterations of the power loop included, for as long
\* as set_performance_mode is not called again and the machine is off battery
C29_PerformanceModeSticks ==
    [][(/\ call.op = "set_performance_mode"
        /\ call.args = <<TRUE>>
        /\ call' = call
        /\ PerformanceApplied
        /\ ~ContainsDischarging(files[BATTERY_STATUS_PATH])
        /\ ~ContainsDischarging(files'[BATTERY_STATUS_PATH]))
          => PerformanceApplied']_vars

\* the loops that have written path p
WritersOf(p) == {n \in Names : <<n, p>> \in writers}

\* C17: no control file has been written by two different loops
C17_SingleWriterPerPath == \A p \in ControlPaths : Cardinality(WritersOf(p)) <= 1

====
